---- MODULE Spec2Model ----
(***************************************************************************)
(* The gamification engine, the module-completion policy and the module    *)
(* unlock sequencing of the OWASP Top 10 training platform, as a state     *)
(* machine over the database tables the handlers read and write.           *)
(*                                                                         *)
(* Every handler runs to completion before the next one starts (one        *)
(* request at a time); each table is a variable, each handler an action.   *)
(* Dates are day numbers; the streak multipliers 1.0 .. 1.5 are kept as    *)
(* tenths (10 .. 15), and int(x * m) is (x * tenths) \div 10, which agrees *)
(* with the floating-point product for every x the XP tables can produce.  *)
(***************************************************************************)
EXTENDS Integers, Sequences, FiniteSets, TLC

VARIABLES
    user_gamification,      \* user_gamification row per user, or NoRow
    activity_completions,   \* per user: the append-only log, in id order
    user_achievements_new,  \* per user: names of the achievements earned
    module_completions,     \* per user: rows (module_id, total_xp_earned)
    user_progress,          \* per user: rows (module_id, xp_earned)
    learning_activities,    \* per user: legacy rows (module_id, activity_type)
    user_assessment_attempts, \* per user: rows (module_id, is_completed, score_percentage)
    users_xp,               \* users.xp, the legacy XP column
    today,                  \* date.today() as a day number
    steps,                  \* how many requests and clock changes have happened
    last_call,              \* what the last handler was and what it returned
    failed_login_attempts,  \* users.failed_login_attempts, per username
    account_locked_until,   \* users.account_locked_until: {} for NULL, or {minute}
    password_hash,          \* users.password_hash, per username
    password_reset_tokens,  \* rows (token, user_id, created_at, expires_at, used)
    now,                    \* datetime.now(), in minutes
    response,               \* the last login / password request and its flashed message
    race_pc,                \* per concurrent complete_activity call: where it is
    race_local,             \* per concurrent call: its arguments and what it has read
    schema_migrations,      \* the file names recorded in schema_migrations
    sql_executed,           \* per migration file: how often its SQL was committed
    mig_pc                  \* the migration runner: runs so far, position, this run's files

auth_vars == << failed_login_attempts, account_locked_until, password_hash,
                password_reset_tokens, now, response >>

race_vars == << race_pc, race_local >>
mig_vars == << schema_migrations, sql_executed, mig_pc >>
learning_vars == << user_gamification, activity_completions, user_achievements_new,
                    module_completions, user_progress, learning_activities,
                    user_assessment_attempts, users_xp, today, steps, last_call >>

vars == << user_gamification, activity_completions, user_achievements_new,
           module_completions, user_progress, learning_activities,
           user_assessment_attempts, users_xp, today, steps, last_call,
           auth_vars, race_vars, mig_vars >>

(***************************************************************************)
(* Bounds of the model.                                                    *)
(***************************************************************************)
MaxSteps == 3       \* requests and clock changes in one behaviour
MaxDay == 3         \* last day the clock reaches
MaxHistory == 31    \* longest daily history the XP specification starts from
MaxXpSteps == 1     \* completions after that history
MaxXpUnits == 520   \* largest award given to _update_user_xp, in units of 50 XP

Users == {1, 2}
ActModules == {"A01", "A02"}             \* modules activities are posted for
OneModule == {"A01"}                     \* module of the less varied requests
UnlockModules == {"A01", "A10", "Z99"}   \* with a successor, the last one, unknown
ActTypes == {"documentation", "lab"}
AllActTypes == {"documentation", "animation", "lab", "quiz", "assessment", "general"}
Scores == {50, 100}
AllScores == {0, 89, 90, 99, 100, 101}
DayJumps == {1, 2}
AllTimeSpents == {0, 600}

NoRow == [absent |-> TRUE]

(***************************************************************************)
(* ModernGamificationSystem.__init__: the fixed tables.                    *)
(***************************************************************************)
xp_rewards(key) ==
    CASE key = "documentation" -> 75
      [] key = "animation" -> 50
      [] key = "lab" -> 100
      [] key = "quiz" -> 80
      [] key = "assessment" -> 80
      [] key = "module_completion" -> 150
      [] key = "perfect_score" -> 50
      [] key = "first_time" -> 25
      [] key = "streak_bonus" -> 15
      [] key = "speed_bonus" -> 20
      [] OTHER -> 0

level_thresholds ==
    << 0, 150, 350, 650, 1100, 1750, 2650, 3850, 5400, 7350, 9750,
       12650, 16100, 20150, 24850 >>

\* streak_multipliers, in tenths, highest threshold first
streak_multipliers == << <<30, 15>>, <<14, 13>>, <<7, 12>>, <<3, 11>> >>

\* the catalog of _initialize_achievements, in insertion order
achievements ==
    << [name |-> "First Steps", xp_reward |-> 50,
        condition_type |-> "activity_count", min |-> 1, arg |-> ""],
       [name |-> "XP Collector", xp_reward |-> 100,
        condition_type |-> "total_xp", min |-> 1000, arg |-> ""],
       [name |-> "XP Master", xp_reward |-> 200,
        condition_type |-> "total_xp", min |-> 5000, arg |-> ""],
       [name |-> "Bookworm", xp_reward |-> 75,
        condition_type |-> "activity_type_count", min |-> 5, arg |-> "documentation"],
       [name |-> "Visual Learner", xp_reward |-> 75,
        condition_type |-> "activity_type_count", min |-> 5, arg |-> "animation"],
       [name |-> "Hands-On Learner", xp_reward |-> 100,
        condition_type |-> "activity_type_count", min |-> 3, arg |-> "lab"],
       [name |-> "Access Control Expert", xp_reward |-> 150,
        condition_type |-> "module_completion", min |-> 0, arg |-> "A01"],
       [name |-> "OWASP Champion", xp_reward |-> 300,
        condition_type |-> "module_count", min |-> 5, arg |-> ""],
       [name |-> "Security Master", xp_reward |-> 500,
        condition_type |-> "module_count", min |-> 10, arg |-> ""],
       [name |-> "Perfectionist", xp_reward |-> 100,
        condition_type |-> "perfect_score", min |-> 1, arg |-> ""],
       [name |-> "Consistent Learner", xp_reward |-> 150,
        condition_type |-> "streak", min |-> 7, arg |-> ""] >>

(***************************************************************************)
(* Pure helpers of the engine.                                             *)
(***************************************************************************)
RECURSIVE CalcLevelFrom(_, _)
CalcLevelFrom(i, total_xp) ==
    IF i < 1 THEN 1
    ELSE IF total_xp >= level_thresholds[i] THEN i
    ELSE CalcLevelFrom(i - 1, total_xp)

RECURSIVE CalcLevelStrictFrom(_, _)
CalcLevelStrictFrom(i, total_xp) ==
    IF i < 1 THEN 1
    ELSE IF total_xp > level_thresholds[i] THEN i
    ELSE CalcLevelStrictFrom(i - 1, total_xp)

\* a level is reached only above its threshold, not at it
_calculate_level_strict(total_xp) == CalcLevelStrictFrom(Len(level_thresholds), total_xp)

\* _calculate_level: scan the thresholds from the highest down
_calculate_level(total_xp) == CalcLevelFrom(Len(level_thresholds), total_xp)

\* _get_next_level_xp
_get_next_level_xp(current_level) ==
    IF current_level < Len(level_thresholds)
    THEN level_thresholds[current_level + 1]
    ELSE level_thresholds[Len(level_thresholds)] + 1000

RECURSIVE MultiplierFrom(_, _)
MultiplierFrom(i, streak) ==
    IF i > Len(streak_multipliers) THEN 10
    ELSE IF streak >= streak_multipliers[i][1] THEN streak_multipliers[i][2]
    ELSE MultiplierFrom(i + 1, streak)

\* _get_streak_multiplier, in tenths
_get_streak_multiplier(streak) == MultiplierFrom(1, streak)

\* the near-perfect bonus starts above 90, not at 90
activity_xp_above_90(activity_type, score, is_first_time, current_streak) ==
    LET base_xp == xp_rewards(IF activity_type \in
                                  {"documentation", "animation", "lab", "quiz", "assessment"}
                              THEN activity_type ELSE "unlisted")
        first_bonus == IF is_first_time THEN xp_rewards("first_time") ELSE 0
        score_bonus == IF score >= 100 THEN xp_rewards("perfect_score")
                       ELSE IF score > 90 THEN xp_rewards("perfect_score") \div 2
                       ELSE 0
    IN ((base_xp + first_bonus + score_bonus) * _get_streak_multiplier(current_streak)) \div 10

\* the XP computation of complete_activity; the product is floored by int()
activity_xp(activity_type, score, is_first_time, current_streak) ==
    LET base_xp == xp_rewards(IF activity_type \in
                                  {"documentation", "animation", "lab", "quiz", "assessment"}
                              THEN activity_type ELSE "unlisted")
        first_bonus == IF is_first_time THEN xp_rewards("first_time") ELSE 0
        score_bonus == IF score >= 100 THEN xp_rewards("perfect_score")
                       ELSE IF score >= 90 THEN xp_rewards("perfect_score") \div 2
                       ELSE 0
    IN ((base_xp + first_bonus + score_bonus) * _get_streak_multiplier(current_streak)) \div 10

(***************************************************************************)
(* The database as one value, so that a handler is a function from the     *)
(* database before it to the database it commits.                          *)
(***************************************************************************)
DB == [ ug |-> user_gamification, ac |-> activity_completions,
        ua |-> user_achievements_new, mc |-> module_completions,
        up |-> user_progress, la |-> learning_activities,
        at |-> user_assessment_attempts, xp |-> users_xp ]

Commit(db) ==
    /\ user_gamification' = db.ug
    /\ activity_completions' = db.ac
    /\ user_achievements_new' = db.ua
    /\ module_completions' = db.mc
    /\ user_progress' = db.up
    /\ learning_activities' = db.la
    /\ user_assessment_attempts' = db.at
    /\ users_xp' = db.xp

\* number of rows of a log that satisfy a test
CountType(log, t) == Cardinality({i \in DOMAIN log : log[i].activity_type = t})
CountPerfect(log) == Cardinality({i \in DOMAIN log : log[i].score = 100})

\* initialize_user: INSERT ... ON CONFLICT (user_id) DO NOTHING
initialize_user(db, u) ==
    IF db.ug[u] # NoRow THEN db
    ELSE [db EXCEPT !.ug[u] = [level |-> 1, current_xp |-> 0, total_xp |-> 0,
                               streak |-> 0, max_streak |-> 0,
                               last_activity_date |-> {}]]

\* the level is computed from the award instead of the new total
_update_user_xp_level_of_award(db, u, xp_amount) ==
    LET data == db.ug[u]
        new_total_xp == data.total_xp + xp_amount
        new_level == _calculate_level(xp_amount)
        level_base_xp == IF new_level > 1 THEN level_thresholds[new_level] ELSE 0
        new_current_xp == new_total_xp - level_base_xp
    IN [db EXCEPT !.ug[u] = [@ EXCEPT !.level = new_level,
                                      !.current_xp = new_current_xp,
                                      !.total_xp = new_total_xp]]

\* _update_user_xp: read total_xp, add, recompute level and current_xp
_update_user_xp(db, u, xp_amount) ==
    LET data == db.ug[u]
        new_total_xp == data.total_xp + xp_amount
        new_level == _calculate_level(new_total_xp)
        level_base_xp == IF new_level > 1 THEN level_thresholds[new_level] ELSE 0
        new_current_xp == new_total_xp - level_base_xp
    IN [db EXCEPT !.ug[u] = [@ EXCEPT !.level = new_level,
                                      !.current_xp = new_current_xp,
                                      !.total_xp = new_total_xp]]

\* a variant whose UPDATE starts from the total stored now, as after SELECT ... FOR UPDATE
_update_user_xp_locked_read(db, u, xp_amount, total_xp_read) ==
    LET new_total_xp == db.ug[u].total_xp + xp_amount
        new_level == _calculate_level(new_total_xp)
        level_base_xp == IF new_level > 1 THEN level_thresholds[new_level] ELSE 0
        new_current_xp == new_total_xp - level_base_xp
    IN [db EXCEPT !.ug[u] = [@ EXCEPT !.level = new_level,
                                      !.current_xp = new_current_xp,
                                      !.total_xp = new_total_xp]]

\* the UPDATE of _update_user_xp, with the total its SELECT returned earlier in
\* the call: level, current XP and total XP are written as absolute values
_update_user_xp_write(db, u, xp_amount, total_xp_read) ==
    LET new_total_xp == total_xp_read + xp_amount
        new_level == _calculate_level(new_total_xp)
        level_base_xp == IF new_level > 1 THEN level_thresholds[new_level] ELSE 0
        new_current_xp == new_total_xp - level_base_xp
    IN [db EXCEPT !.ug[u] = [@ EXCEPT !.level = new_level,
                                      !.current_xp = new_current_xp,
                                      !.total_xp = new_total_xp]]

\* a gap of two days or more continues the streak instead of restarting it
_update_streak_no_restart(db, u, T) ==
    LET data == db.ug[u]
        new_streak == data.streak + 1
        new_max_streak == IF data.max_streak >= new_streak
                          THEN data.max_streak ELSE new_streak
    IN IF data.last_activity_date = {T} THEN db
       ELSE [db EXCEPT !.ug[u] = [@ EXCEPT !.streak = new_streak,
                                           !.max_streak = new_max_streak,
                                           !.last_activity_date = {T}]]

\* _update_streak: the three cases on last_activity_date
_update_streak(db, u, T) ==
    LET data == db.ug[u]
        yesterday == T - 1
        new_streak == IF data.last_activity_date = {yesterday}
                      THEN data.streak + 1 ELSE 1
        new_max_streak == IF data.max_streak >= new_streak
                          THEN data.max_streak ELSE new_streak
    IN IF data.last_activity_date = {T} THEN db
       ELSE [db EXCEPT !.ug[u] = [@ EXCEPT !.streak = new_streak,
                                           !.max_streak = new_max_streak,
                                           !.last_activity_date = {T}]]

\* the statistics row _check_achievements selects once, before the loop
achievement_stats(db, u) ==
    LET nmc == Cardinality({r.module_id : r \in db.mc[u]})
    IN [ total_xp |-> db.ug[u].total_xp,
         streak |-> db.ug[u].streak,
         max_streak |-> db.ug[u].max_streak,
         total_activities |-> Len(db.ac[u]),
         modules_completed |-> nmc,
         \* COUNT(CASE ...) runs over the join of the two tables
         perfect_scores |-> CountPerfect(db.ac[u]) * (IF nmc = 0 THEN 1 ELSE nmc) ]

\* _check_achievement_condition
_check_achievement_condition(achievement, stats, log) ==
    CASE achievement.condition_type = "activity_count" ->
            stats.total_activities >= achievement.min
      [] achievement.condition_type = "total_xp" ->
            stats.total_xp >= achievement.min
      [] achievement.condition_type = "activity_type_count" ->
            CountType(log, achievement.arg) >= achievement.min
      [] achievement.condition_type = "module_count" ->
            stats.modules_completed >= achievement.min
      [] achievement.condition_type = "perfect_score" ->
            stats.perfect_scores >= achievement.min
      [] achievement.condition_type = "streak" ->
            stats.max_streak >= achievement.min
      [] achievement.condition_type = "module_completion" -> FALSE
      [] OTHER -> FALSE

RECURSIVE AwardFrom(_, _, _, _, _)
AwardFrom(i, db, u, stats, earned_ids) ==
    IF i > Len(achievements) THEN db
    ELSE LET achievement == achievements[i] IN
         IF achievement.name \in earned_ids
         THEN AwardFrom(i + 1, db, u, stats, earned_ids)
         ELSE IF _check_achievement_condition(achievement, stats, db.ac[u])
         THEN LET db1 == [db EXCEPT !.ua[u] = @ \cup {achievement.name}]
                  db2 == IF achievement.xp_reward > 0
                         THEN _update_user_xp(db1, u, achievement.xp_reward)
                         ELSE db1
              IN AwardFrom(i + 1, db2, u, stats, earned_ids)
         ELSE AwardFrom(i + 1, db, u, stats, earned_ids)

\* _check_achievements: one snapshot of the statistics, then the loop
_check_achievements(db, u) ==
    AwardFrom(1, db, u, achievement_stats(db, u), db.ua[u])

\* the count also filters on the module
prior_completions_in_module(db, u, module_id, activity_type) ==
    Cardinality({i \in DOMAIN db.ac[u] : /\ db.ac[u][i].activity_type = activity_type
                                         /\ db.ac[u][i].module_id = module_id})

\* SELECT COUNT(*) FROM activity_completions WHERE user_id AND activity_type
prior_completions(db, u, module_id, activity_type) ==
    CountType(db.ac[u], activity_type)

\* a variant that updates the streak first and multiplies by the new streak
complete_activity_streak_first(db, u, module_id, activity_type, score, time_spent, T) ==
    LET db0 == _update_streak(initialize_user(db, u), u, T)
        is_first_time == prior_completions(db0, u, module_id, activity_type) = 0
        current_streak == db0.ug[u].streak
        total_xp == activity_xp(activity_type, score, is_first_time, current_streak)
        row == [ module_id |-> module_id, activity_type |-> activity_type,
                 score |-> score, time_spent |-> time_spent,
                 xp_earned |-> total_xp, first_time |-> is_first_time ]
        db1 == [db0 EXCEPT !.ac[u] = Append(@, row)]
        db2 == _update_user_xp(db1, u, total_xp)
    IN _check_achievements(db2, u)

\* complete_activity: the committed database
complete_activity(db, u, module_id, activity_type, score, time_spent, T) ==
    LET db0 == initialize_user(db, u)
        is_first_time == prior_completions(db0, u, module_id, activity_type) = 0
        current_streak == db0.ug[u].streak
        total_xp == activity_xp(activity_type, score, is_first_time, current_streak)
        row == [ module_id |-> module_id, activity_type |-> activity_type,
                 score |-> score, time_spent |-> time_spent,
                 xp_earned |-> total_xp,
                 \* not a column: whether this row's XP includes the first-time bonus
                 first_time |-> is_first_time ]
        db1 == [db0 EXCEPT !.ac[u] = Append(@, row)]
        db2 == _update_user_xp(db1, u, total_xp)
        db3 == _update_streak(db2, u, T)
    IN _check_achievements(db3, u)

\* the statements after the reads, with the first-time flag counted again at the insert
finish_activity_recounting(db, u, module_id, activity_type, score, time_spent, T, is_first_time, current_streak) ==
    LET recounted == prior_completions(db, u, module_id, activity_type) = 0
        total_xp == activity_xp(activity_type, score, recounted, current_streak)
        row == [ module_id |-> module_id, activity_type |-> activity_type,
                 score |-> score, time_spent |-> time_spent,
                 xp_earned |-> total_xp, first_time |-> recounted ]
        db1 == [db EXCEPT !.ac[u] = Append(@, row)]
        db2 == _update_user_xp(db1, u, total_xp)
        db3 == _update_streak(db2, u, T)
    IN _check_achievements(db3, u)

\* complete_activity from its insert to its commit, with the values its two
\* SELECTs returned earlier in the call
finish_activity(db, u, module_id, activity_type, score, time_spent, T, is_first_time, current_streak) ==
    LET total_xp == activity_xp(activity_type, score, is_first_time, current_streak)
        row == [ module_id |-> module_id, activity_type |-> activity_type,
                 score |-> score, time_spent |-> time_spent,
                 xp_earned |-> total_xp, first_time |-> is_first_time ]
        db1 == [db EXCEPT !.ac[u] = Append(@, row)]
        db2 == _update_user_xp(db1, u, total_xp)
        db3 == _update_streak(db2, u, T)
    IN _check_achievements(db3, u)

(***************************************************************************)
(* The module-completion policy and the unlock step.                       *)
(***************************************************************************)
NoModule == "None"

\* the fallback order of get_module_order, also the list of get_next_module_id
module_order ==
    << "A01", "A02", "A03", "A04", "A05", "A06", "A07", "A08", "A09", "A10" >>

\* the order is a cycle: the last module is followed by the first
get_next_module_id_cyclic(current_module_id) ==
    IF \E i \in DOMAIN module_order : module_order[i] = current_module_id
    THEN LET current_index == CHOOSE i \in DOMAIN module_order :
                                  module_order[i] = current_module_id
         IN module_order[(current_index % Len(module_order)) + 1]
    ELSE NoModule

\* get_next_module_id / get_next_module_id_dynamic
get_next_module_id(current_module_id) ==
    IF \E i \in DOMAIN module_order : module_order[i] = current_module_id
    THEN LET current_index == CHOOSE i \in DOMAIN module_order :
                                  module_order[i] = current_module_id
         IN IF current_index < Len(module_order)
            THEN module_order[current_index + 1]
            ELSE NoModule
    ELSE NoModule

\* one recorded activity type is enough for the policy
is_module_completed_single_activity(db, u, module_id) ==
    \/ \E i \in DOMAIN db.ac[u] : db.ac[u][i].module_id = module_id
    \/ \E x \in db.la[u] : x.module_id = module_id

\* is_module_completed (the later definition, which is the one in effect)
is_module_completed(db, u, module_id) ==
    LET assessment_completed ==
            \E r \in db.at[u] : /\ r.module_id = module_id
                                /\ r.is_completed
                                /\ r.score_percentage >= 70
        modern_activities ==
            Cardinality({db.ac[u][i].activity_type :
                            i \in {j \in DOMAIN db.ac[u] : db.ac[u][j].module_id = module_id}})
        legacy_activities ==
            Cardinality({r.activity_type : r \in {x \in db.la[u] : x.module_id = module_id}})
        completed_activities ==
            IF modern_activities >= legacy_activities
            THEN modern_activities ELSE legacy_activities
    IN (assessment_completed /\ completed_activities >= 1) \/ (completed_activities >= 2)

\* unlock_next_module / unlock_next_module_dynamic: the committed database
unlock_next_module(db, u, current_module_id) ==
    LET next_module_id == get_next_module_id(current_module_id)
    IN IF next_module_id = NoModule THEN db
       ELSE IF \E r \in db.up[u] : r.module_id = next_module_id THEN db
       ELSE [db EXCEPT !.up[u] = @ \cup {[module_id |-> next_module_id, xp_earned |-> 0]}]

\* what the unlock step returns: the next module, or None
unlock_result(db, u, current_module_id) == get_next_module_id(current_module_id)

RECURSIVE UnlockedFrom(_, _, _, _)
UnlockedFrom(i, db, u, unlocked_modules) ==
    IF i > Len(module_order) - 1 THEN unlocked_modules
    ELSE IF /\ is_module_completed(db, u, module_order[i])
            /\ ~\E k \in DOMAIN unlocked_modules : unlocked_modules[k] = module_order[i + 1]
    THEN UnlockedFrom(i + 1, db, u, Append(unlocked_modules, module_order[i + 1]))
    ELSE UnlockedFrom(i + 1, db, u, unlocked_modules)

\* get_user_unlocked_modules: the first module, then the successor of each
\* module whose policy holds
get_user_unlocked_modules(db, u) == UnlockedFrom(1, db, u, << module_order[1] >>)

\* get_user_completed_modules: the modules whose policy holds, in order
get_user_completed_modules(db, u) ==
    SelectSeq(module_order, LAMBDA module_id : is_module_completed(db, u, module_id))

\* mark_module_completed: INSERT ... ON CONFLICT DO NOTHING, then users.xp += xp
mark_module_completed(db, u, key, xp_earned) ==
    LET db1 == IF \E r \in db.up[u] : r.module_id = key THEN db
               ELSE [db EXCEPT !.up[u] = @ \cup {[module_id |-> key, xp_earned |-> xp_earned]}]
    IN [db1 EXCEPT !.xp[u] = @ + xp_earned]

RECURSIVE SumXp(_, _)
SumXp(log, module_id) ==
    IF log = << >> THEN 0
    ELSE (IF Head(log).module_id = module_id THEN Head(log).xp_earned ELSE 0)
         + SumXp(Tail(log), module_id)

\* how complete_module ends: already completed, an exception, or committed
complete_module_result(db, u, module_id) ==
    IF \E r \in db.mc[u] : r.module_id = module_id THEN "already"
    ELSE IF db.ug[u] = NoRow THEN "error"
    ELSE "ok"

\* a variant that records the completion and skips the bonus
complete_module_without_bonus(db, u, module_id) ==
    IF complete_module_result(db, u, module_id) # "ok" THEN db
    ELSE LET module_xp == SumXp(db.ac[u], module_id)
             completion_bonus == xp_rewards("module_completion")
             db1 == [db EXCEPT !.mc[u] = @ \cup
                        {[module_id |-> module_id,
                          total_xp_earned |-> module_xp + completion_bonus]}]
         IN _check_achievements(db1, u)

\* complete_module: the committed database
complete_module(db, u, module_id) ==
    IF complete_module_result(db, u, module_id) # "ok" THEN db
    ELSE LET module_xp == SumXp(db.ac[u], module_id)
             completion_bonus == xp_rewards("module_completion")
             db1 == [db EXCEPT !.mc[u] = @ \cup
                        {[module_id |-> module_id,
                          total_xp_earned |-> module_xp + completion_bonus]}]
             db2 == _update_user_xp(db1, u, completion_bonus)
         IN _check_achievements(db2, u)

\* a rollback that keeps the statements already executed
rollback_keeps_work(committed, tx) == tx

\* conn.rollback(): the statements of the open transaction are dropped
rollback(committed, tx) == committed

\* the statements of complete_activity and of complete_module that can raise
ActivityFailPoints ==
    { "initialize_user", "select", "insert", "_update_user_xp", "_update_streak",
      "_check_achievements", "commit" }
ModuleFailPoints ==
    { "select", "insert", "_update_user_xp", "_check_achievements", "commit" }

\* complete_activity when the statement fail_at raises: initialize_user has
\* committed on its own connection unless it is the one that raised, and the
\* statements executed before fail_at are rolled back
complete_activity_failing(db, u, module_id, activity_type, score, time_spent, T, fail_at) ==
    LET db0 == IF fail_at = "initialize_user" THEN db ELSE initialize_user(db, u)
        is_first_time == prior_completions(db0, u, module_id, activity_type) = 0
        current_streak == db0.ug[u].streak
        total_xp == activity_xp(activity_type, score, is_first_time, current_streak)
        row == [ module_id |-> module_id, activity_type |-> activity_type,
                 score |-> score, time_spent |-> time_spent,
                 xp_earned |-> total_xp, first_time |-> is_first_time ]
        db1 == [db0 EXCEPT !.ac[u] = Append(@, row)]
        db2 == _update_user_xp(db1, u, total_xp)
        db3 == _update_streak(db2, u, T)
        db4 == _check_achievements(db3, u)
        tx == CASE fail_at \in {"initialize_user", "select", "insert"} -> db0
                [] fail_at = "_update_user_xp" -> db1
                [] fail_at = "_update_streak" -> db2
                [] fail_at = "_check_achievements" -> db3
                [] fail_at = "commit" -> db4
    IN rollback(db0, tx)

\* complete_module when the statement fail_at raises
complete_module_failing(db, u, module_id, fail_at) ==
    LET module_xp == SumXp(db.ac[u], module_id)
        completion_bonus == xp_rewards("module_completion")
        db1 == [db EXCEPT !.mc[u] = @ \cup
                   {[module_id |-> module_id,
                     total_xp_earned |-> module_xp + completion_bonus]}]
        db2 == _update_user_xp(db1, u, completion_bonus)
        db3 == _check_achievements(db2, u)
        tx == CASE fail_at \in {"select", "insert"} -> db
                [] fail_at = "_update_user_xp" -> db1
                [] fail_at = "_check_achievements" -> db2
                [] fail_at = "commit" -> db3
    IN rollback(db, tx)

\* get_activity_xp: the legacy XP table
get_activity_xp(activity_type) ==
    CASE activity_type = "documentation" -> 50
      [] activity_type = "animation" -> 25
      [] activity_type = "lab" -> 75
      [] activity_type = "quiz" -> 50
      [] activity_type = "assessment" -> 50
      [] OTHER -> 25

\* complete_learning_activity: the committed database
complete_learning_activity(db, u, module_id, activity_type, score, time_spent, T) ==
    LET db1 == complete_activity(db, u, module_id, activity_type, score, time_spent, T)
        legacy_row == [module_id |-> module_id, activity_type |-> activity_type]
        db2 == IF legacy_row \in db1.la[u] THEN db1
               ELSE [db1 EXCEPT !.la[u] = @ \cup {legacy_row},
                                !.xp[u] = @ + get_activity_xp(activity_type)]
    IN IF is_module_completed(db2, u, module_id)
       THEN unlock_next_module(complete_module(db2, u, module_id), u, module_id)
       ELSE db2

\* the legacy statements of complete_learning_activity that can raise
LegacyFailPoints == { "select", "insert", "update", "commit" }

\* complete_learning_activity when the legacy statement fail_at raises:
\* complete_activity has committed on its own connection before the first legacy
\* statement, and complete_module and unlock_next_module on theirs before the
\* commit; only the legacy connection is rolled back
complete_learning_activity_failing(db, u, module_id, activity_type, score, time_spent, T, fail_at) ==
    LET db1 == complete_activity(db, u, module_id, activity_type, score, time_spent, T)
        committed == IF fail_at = "commit" /\ is_module_completed(db1, u, module_id)
                     THEN unlock_next_module(complete_module(db1, u, module_id), u, module_id)
                     ELSE db1
        legacy_row == [module_id |-> module_id, activity_type |-> activity_type]
        tx == IF fail_at = "select" \/ legacy_row \in committed.la[u] THEN committed
              ELSE IF fail_at = "insert" THEN committed
              ELSE IF fail_at = "update"
              THEN [committed EXCEPT !.la[u] = @ \cup {legacy_row}]
              ELSE [committed EXCEPT !.la[u] = @ \cup {legacy_row},
                                     !.xp[u] = @ + get_activity_xp(activity_type)]
    IN rollback(committed, tx)

\* reset_user_progress
reset_user_progress(db, u) ==
    [db EXCEPT !.up[u] = {}, !.la[u] = {}, !.xp[u] = 0]

\* reset_all_users_progress (every modelled user is active)
reset_all_users_progress(db) ==
    [db EXCEPT !.up = [u \in Users |-> {}],
               !.la = [u \in Users |-> {}],
               !.xp = [u \in Users |-> 0]]

DocKey(module_id) == module_id \o "_doc"
AssessmentKey(module_id) == module_id \o "_assessment"

\* the xp_earned of the row complete_activity has just appended
LastXp(db, u) == db.ac[u][Len(db.ac[u])].xp_earned

(***************************************************************************)
(* Accounts: login with lockout, and password reset by token.  The account *)
(* columns and the token table are one value, AUTH, the way the learning   *)
(* tables are DB.  Time is in minutes.                                     *)
(***************************************************************************)
MAX_LOGIN_ATTEMPTS == 5
LOCKOUT_DURATION_MINUTES == 30
TOKEN_EXPIRY_HOURS == 24

AuthUsers == {"alice"}                   \* the usernames that have an account
Usernames == {"alice", "nobody"}         \* usernames a client submits
Emails == {"alice@example.org", "nobody@example.org"}
Passwords == {"pw0", "pw1", "bad"}       \* passwords a client submits
NoUser == [absent |-> TRUE]

\* AuthSecurity.hash_password / verify_password: a hash verifies one password
hash_password(password) == "bcrypt:" \o password
verify_password(password, hashed) == hashed = hash_password(password)

\* get_user_by_email: the active user with that email, if any
get_user_by_email(email) ==
    IF email = "alice@example.org" THEN [id |-> 1, username |-> "alice"] ELSE NoUser

AUTH == [ fla |-> failed_login_attempts, alu |-> account_locked_until,
          ph |-> password_hash, prt |-> password_reset_tokens ]

CommitAuth(au) ==
    /\ failed_login_attempts' = au.fla
    /\ account_locked_until' = au.alu
    /\ password_hash' = au.ph
    /\ password_reset_tokens' = au.prt

\* a variant that never reports a lock
is_locked_unchecked(au, username, t) == FALSE

\* check_account_lockout: the flag it returns
is_locked(au, username, t) ==
    /\ username \in AuthUsers
    /\ \E locked_until \in au.alu[username] : t < locked_until

\* check_account_lockout: an expired lock is cleared, with the counter
check_account_lockout(au, username, t) ==
    IF /\ username \in AuthUsers
       /\ \E locked_until \in au.alu[username] : t >= locked_until
    THEN [au EXCEPT !.fla[username] = 0, !.alu[username] = {}]
    ELSE au

\* a variant that locks only once the count has passed the maximum
handle_failed_login_late_lock(au, username, t) ==
    IF username \notin AuthUsers THEN au
    ELSE LET failed_attempts == au.fla[username] + 1
         IN IF failed_attempts > MAX_LOGIN_ATTEMPTS
            THEN [au EXCEPT !.fla[username] = failed_attempts,
                            !.alu[username] = {t + LOCKOUT_DURATION_MINUTES}]
            ELSE [au EXCEPT !.fla[username] = failed_attempts]

\* handle_failed_login: count, and lock when the count reaches the maximum
handle_failed_login(au, username, t) ==
    IF username \notin AuthUsers THEN au
    ELSE LET failed_attempts == au.fla[username] + 1
         IN IF failed_attempts >= MAX_LOGIN_ATTEMPTS
            THEN [au EXCEPT !.fla[username] = failed_attempts,
                            !.alu[username] = {t + LOCKOUT_DURATION_MINUTES}]
            ELSE [au EXCEPT !.fla[username] = failed_attempts]

\* handle_successful_login
handle_successful_login(au, username) ==
    IF username \notin AuthUsers THEN au
    ELSE [au EXCEPT !.fla[username] = 0, !.alu[username] = {}]

\* authenticate_user: the username has an account and the password verifies
authenticate_user(au, username, password) ==
    username \in AuthUsers /\ verify_password(password, au.ph[username])

\* create_password_reset_token: older tokens of the user are spent, a new one is stored
create_password_reset_token(au, user_id, token, t) ==
    [au EXCEPT !.prt =
        {[r EXCEPT !.used = IF r.user_id = user_id THEN TRUE ELSE r.used] : r \in @}
        \cup {[token |-> token, user_id |-> user_id, created_at |-> t,
               expires_at |-> t + TOKEN_EXPIRY_HOURS * 60, used |-> FALSE]}]

\* a variant that accepts a token that was already used
verify_password_reset_token_ignoring_used(au, token, t) ==
    {r.user_id : r \in {x \in au.prt : /\ x.token = token
                                       /\ ~(t > x.expires_at)}}

\* verify_password_reset_token: the set holding the user id, or the empty set for None
verify_password_reset_token(au, token, t) ==
    {r.user_id : r \in {x \in au.prt : /\ x.token = token
                                       /\ ~x.used
                                       /\ ~(t > x.expires_at)}}

\* update_user_password: the user's row by id
update_user_password(au, user_id, hashed) ==
    IF user_id = 1
    THEN [au EXCEPT !.ph["alice"] = hashed, !.fla["alice"] = 0, !.alu["alice"] = {}]
    ELSE au

\* use_password_reset_token
use_password_reset_token(au, token) ==
    [au EXCEPT !.prt = {[r EXCEPT !.used = IF r.token = token THEN TRUE ELSE r.used] : r \in @}]

Response(op, who, password, token, message) ==
    [ op |-> op, who |-> who, password |-> password, token |-> token,
      message |-> message ]

\* one account, never locked, no token issued, nothing requested yet
InitAuth ==
    /\ failed_login_attempts = [n \in AuthUsers |-> 0]
    /\ account_locked_until = [n \in AuthUsers |-> {}]
    /\ password_hash = [n \in AuthUsers |-> hash_password("pw0")]
    /\ password_reset_tokens = {}
    /\ now = 0
    /\ response = Response("none", "", "", 0, "")

RaceCalls == {1, 2}
RaceUser == 1                            \* both calls are requests of this user
NoLocals == [activity_type |-> "", is_first_time |-> FALSE, current_streak |-> 0]

\* no concurrent call has started
InitRace ==
    /\ race_pc = [c \in RaceCalls |-> "idle"]
    /\ race_local = [c \in RaceCalls |-> NoLocals]

(***************************************************************************)
(* Schema migrations: the files of migrations/, named by their numeric     *)
(* prefix, the tracking table, and how often each file's SQL was committed.*)
(***************************************************************************)
MigrationFiles == {1, 2, 3}

\* list.sort(): ascending by name
RECURSIVE sorted(_)
sorted(S) ==
    IF S = {} THEN << >>
    ELSE LET least == CHOOSE x \in S : \A y \in S : x <= y
         IN << least >> \o sorted(S \ {least})

\* get_migration_files: every .sql file of the directory, sorted
get_migration_files == sorted(MigrationFiles)

\* is_migration_executed: a row of schema_migrations names the file
is_migration_executed(filename) == filename \in schema_migrations

\* a new database: nothing executed, nothing recorded, no run started
InitMig ==
    /\ schema_migrations = {}
    /\ sql_executed = [f \in MigrationFiles |-> 0]
    /\ mig_pc = [runs |-> 0, pos |-> 0, log |-> << >>, failed |-> FALSE]

(***************************************************************************)
(* Handlers.  Each action is one request served from start to commit.      *)
(***************************************************************************)
Call(name, u, module_id, ret) ==
    [ op |-> name, user |-> u, module_id |-> module_id, ret |-> ret ]

\* one more request to the learning handlers; they touch no account data
Step ==
    /\ steps < MaxSteps
    /\ steps' = steps + 1
    /\ UNCHANGED << auth_vars, race_vars, mig_vars >>

\* the database of a fresh installation: users, and no progress of any kind
EmptyDB ==
    [ ug |-> [u \in Users |-> NoRow], ac |-> [u \in Users |-> << >>],
      ua |-> [u \in Users |-> {}], mc |-> [u \in Users |-> {}],
      up |-> [u \in Users |-> {}], la |-> [u \in Users |-> {}],
      at |-> [u \in Users |-> {}], xp |-> [u \in Users |-> 0] ]

Holds(db) ==
    /\ user_gamification = db.ug
    /\ activity_completions = db.ac
    /\ user_achievements_new = db.ua
    /\ module_completions = db.mc
    /\ user_progress = db.up
    /\ learning_activities = db.la
    /\ user_assessment_attempts = db.at
    /\ users_xp = db.xp

Init ==
    /\ Holds(EmptyDB)
    /\ today = 1
    /\ steps = 0
    /\ last_call = Call("none", 1, "", "")
    /\ InitAuth
    /\ InitRace
    /\ InitMig

\* api_award_xp: complete_activity alone
ApiAwardXp ==
    \E u \in Users, m \in ActModules, t \in ActTypes :
        /\ Step
        /\ Commit(complete_activity(DB, u, m, t, 50, 60, today))
        /\ last_call' = Call("complete_activity", u, m, "ok")
        /\ UNCHANGED today

\* api_complete_lab, api_complete_documentation, award_xp: complete_learning_activity
CompleteLearningActivity ==
    \E u \in Users, m \in ActModules, t \in ActTypes :
        /\ Step
        /\ Commit(complete_learning_activity(DB, u, m, t, 100, 0, today))
        /\ last_call' = Call("complete_learning_activity", u, m, "True")
        /\ UNCHANGED today

\* track_doc_reading
TrackDocReading ==
    \E u \in Users, m \in OneModule :
        /\ Step
        /\ LET already_completed == \E r \in user_progress[u] : r.module_id = DocKey(m)
               db1 == complete_activity(DB, u, m, "documentation", 100, 60, today)
           IN IF already_completed
              THEN /\ Commit(DB)
                   /\ last_call' = Call("track_doc_reading", u, m, "repeat")
              ELSE /\ Commit(mark_module_completed(db1, u, DocKey(m), LastXp(db1, u)))
                   /\ last_call' = Call("track_doc_reading", u, m, "first")
        /\ UNCHANGED today

\* api_start_assessment, for a module that has questions
ApiStartAssessment ==
    \E u \in Users, m \in OneModule :
        /\ Step
        /\ Commit([DB EXCEPT !.at[u] = @ \cup
                      {[module_id |-> m, is_completed |-> FALSE, score_percentage |-> 0]}])
        /\ last_call' = Call("start_assessment", u, m, "ok")
        /\ UNCHANGED today

\* api_submit_assessment for a module without questions
ApiSubmitAssessmentNoQuestions ==
    \E u \in Users, m \in OneModule :
        /\ Step
        /\ LET db1 == complete_activity(DB, u, m, "assessment", 100, 60, today)
               db2 == complete_module(db1, u, m)
           IN Commit(unlock_next_module(db2, u, m))
        /\ last_call' = Call("submit_assessment", u, m, "no_questions")
        /\ UNCHANGED today

\* api_submit_assessment for a module with questions: s is the score percentage
ApiSubmitAssessment ==
    \E u \in Users, m \in OneModule, s \in Scores :
        /\ Step
        /\ LET db1 == complete_activity(DB, u, m, "assessment", s, 60, today)
               db2 == complete_module(db1, u, m)
               db3 == unlock_next_module(db2, u, m)
           IN IF is_module_completed(db1, u, m)
              THEN Commit(mark_module_completed(db3, u, AssessmentKey(m), LastXp(db1, u)))
              ELSE Commit(db1)
        /\ last_call' = Call("submit_assessment", u, m, "scored")
        /\ UNCHANGED today

\* api_complete_module: complete_module with no policy check
ApiCompleteModule ==
    \E u \in Users, m \in OneModule :
        /\ Step
        /\ Commit(complete_module(DB, u, m))
        /\ last_call' = Call("complete_module", u, m, complete_module_result(DB, u, m))
        /\ UNCHANGED today

\* debug_unlock_module: the unlock step with no policy check
DebugUnlockModule ==
    \E u \in Users, m \in UnlockModules :
        /\ Step
        /\ Commit(unlock_next_module(DB, u, m))
        /\ last_call' = Call("unlock_next_module", u, m, unlock_result(DB, u, m))
        /\ UNCHANGED today

\* admin_reset_user_progress -> reset_user_progress
ResetUserProgress ==
    \E u \in Users :
        /\ Step
        /\ Commit(reset_user_progress(DB, u))
        /\ last_call' = Call("reset_user_progress", u, "", "ok")
        /\ UNCHANGED today

\* admin_reset_all_progress, reset_all_progress.py -> reset_all_users_progress
ResetAllUsersProgress ==
    /\ Step
    /\ Commit(reset_all_users_progress(DB))
    /\ last_call' = Call("reset_all_users_progress", 1, "", "ok")
    /\ UNCHANGED today

\* the calendar moves on by one day or more
Tick ==
    \E d \in DayJumps :
        /\ Step
        /\ today + d <= MaxDay
        /\ today' = today + d
        /\ last_call' = Call("tick", 1, "", "")
        /\ UNCHANGED << user_gamification, activity_completions, user_achievements_new,
                        module_completions, user_progress, learning_activities,
                        user_assessment_attempts, users_xp >>

Next ==
    \/ ApiAwardXp
    \/ CompleteLearningActivity
    \/ TrackDocReading
    \/ ApiStartAssessment
    \/ ApiSubmitAssessmentNoQuestions
    \/ ApiSubmitAssessment
    \/ ApiCompleteModule
    \/ DebugUnlockModule
    \/ ResetUserProgress
    \/ ResetAllUsersProgress
    \/ Tick

Spec == Init /\ [][Next]_vars

(***************************************************************************)
(* The XP specification: user 1 completes one lab a day for any number of  *)
(* days, the calendar may then run up to two days past the last of them,   *)
(* and at any point activities of every type and score band are completed. *)
(***************************************************************************)
LastActivityDate(u) ==
    IF user_gamification[u] = NoRow THEN {} ELSE user_gamification[u].last_activity_date

\* one more day of the history: the daily lab of user 1
XpDailyLab ==
    /\ steps = 0
    /\ today <= MaxHistory
    /\ LastActivityDate(1) \in {{}, {today - 1}}
    /\ Commit(complete_activity(DB, 1, "A01", "lab", 50, 60, today))
    /\ last_call' = Call("complete_activity", 1, "A01", "ok")
    /\ UNCHANGED << today, steps, auth_vars, race_vars, mig_vars >>

\* midnight, after the daily lab or up to two days after the last one
XpTick ==
    /\ steps = 0
    /\ LastActivityDate(1) \in {{today}, {today - 1}}
    /\ today' = today + 1
    /\ last_call' = Call("tick", 1, "", "")
    /\ UNCHANGED << user_gamification, activity_completions, user_achievements_new,
                    module_completions, user_progress, learning_activities,
                    user_assessment_attempts, users_xp, steps, auth_vars, race_vars, mig_vars >>

XpCompleteActivity ==
    \E m \in OneModule, t \in AllActTypes, s \in AllScores, ts \in AllTimeSpents :
        /\ steps < MaxXpSteps
        /\ steps' = steps + 1
        /\ Commit(complete_activity(DB, 1, m, t, s, ts, today))
        /\ last_call' = Call("complete_activity", 1, m, "ok")
        /\ UNCHANGED << today, auth_vars, race_vars, mig_vars >>

NextXP ==
    \/ XpDailyLab
    \/ XpTick
    \/ XpCompleteActivity

SpecXP == Init /\ [][NextXP]_vars

(***************************************************************************)
(* The level specification: _update_user_xp applied to a new user's row    *)
(* with one award drawn from 0, 50, 100, ... and the XP just below each.   *)
(***************************************************************************)
XpAmounts == {50 * k : k \in 0..MaxXpUnits} \cup {50 * k - 1 : k \in 1..MaxXpUnits}

InitLevel ==
    /\ Holds(EmptyDB)
    /\ today = 1
    /\ steps = 0
    /\ last_call = Call("none", 1, "", "")
    /\ InitAuth
    /\ InitRace
    /\ InitMig

LevelUpdateUserXp ==
    \E u \in Users, amount \in XpAmounts :
        /\ steps = 0
        /\ steps' = 1
        /\ Commit(_update_user_xp(initialize_user(DB, u), u, amount))
        /\ last_call' = Call("_update_user_xp", u, "", "ok")
        /\ UNCHANGED << today, auth_vars, race_vars, mig_vars >>

NextLevel == LevelUpdateUserXp

SpecLevel == InitLevel /\ [][NextLevel]_vars

(***************************************************************************)
(* The login specification: login attempts, password resets and a clock    *)
(* that advances a quarter of an hour at a time.                           *)
(***************************************************************************)
MaxQuarters == 4
MaxTokens == 2
QuarterHour == LOCKOUT_DURATION_MINUTES \div 2   \* the clock meets the end of a lock exactly
ResetPasswords == {"pw0", "pw1"}         \* passwords that pass the password policy
Tokens == 0 .. MaxTokens                 \* tokens a client submits; 0 was never issued

LockedMessage == "Account is locked due to too many failed attempts"
InvalidMessage == "Invalid username or password"
WelcomeMessage == "Welcome back"
SentMessage == "Password reset instructions have been sent to your email address."
SendFailedMessage == "Failed to send password reset email. Please try again."
IfExistsMessage == "If an account with that email exists, password reset instructions have been sent."
BadTokenMessage == "Invalid or expired password reset token"
ResetDoneMessage == "Your password has been successfully reset. Please log in with your new password."

\* POST /login with both fields filled in
Login ==
    \E username \in Usernames, password \in Passwords :
        LET checked == check_account_lockout(AUTH, username, now)
        IN /\ IF is_locked(AUTH, username, now)
              THEN /\ CommitAuth(AUTH)
                   /\ response' = Response("login", username, password, 0, LockedMessage)
              ELSE IF authenticate_user(checked, username, password)
              THEN /\ CommitAuth(handle_successful_login(checked, username))
                   /\ response' = Response("login", username, password, 0, WelcomeMessage)
              ELSE /\ CommitAuth(handle_failed_login(checked, username, now))
                   /\ response' = Response("login", username, password, 0, InvalidMessage)
           /\ UNCHANGED << now, learning_vars, race_vars, mig_vars >>

\* POST /forgot-password with an email; the mail is sent or the sending fails
ForgotPassword ==
    \E email \in Emails, sent \in BOOLEAN :
        LET user == get_user_by_email(email)
            token == Cardinality(password_reset_tokens) + 1
        IN /\ IF user = NoUser
              THEN /\ sent
                   /\ CommitAuth(AUTH)
                   /\ response' = Response("forgot_password", email, "", 0, IfExistsMessage)
              ELSE /\ token <= MaxTokens
                   /\ CommitAuth(create_password_reset_token(AUTH, user.id, token, now))
                   /\ response' = Response("forgot_password", email, "", token,
                                           IF sent THEN SentMessage ELSE SendFailedMessage)
           /\ UNCHANGED << now, learning_vars, race_vars, mig_vars >>

\* POST /reset-password with a token and a new password, entered twice
ResetPassword ==
    \E token \in Tokens, password \in ResetPasswords :
        LET user_id == verify_password_reset_token(AUTH, token, now)
        IN /\ IF user_id = {}
              THEN /\ CommitAuth(AUTH)
                   /\ response' = Response("reset_password", "", password, token, BadTokenMessage)
              ELSE /\ \E id \in user_id :
                        CommitAuth(use_password_reset_token(
                            update_user_password(AUTH, id, hash_password(password)), token))
                   /\ response' = Response("reset_password", "", password, token, ResetDoneMessage)
           /\ UNCHANGED << now, learning_vars, race_vars, mig_vars >>

\* a quarter of an hour passes
LoginTick ==
    /\ now < MaxQuarters * QuarterHour
    /\ now' = now + QuarterHour
    /\ UNCHANGED << failed_login_attempts, account_locked_until, password_hash,
                    password_reset_tokens, response, learning_vars, race_vars, mig_vars >>

NextLogin == Login \/ ForgotPassword \/ ResetPassword \/ LoginTick

SpecLogin == Init /\ [][NextLogin]_vars

(***************************************************************************)
(* The token specification: reset requests and resets, with a clock that   *)
(* advances half the life of a token at a time.                            *)
(***************************************************************************)
MaxHalfDays == 3
HalfDay == (TOKEN_EXPIRY_HOURS * 60) \div 2   \* the clock meets the expiry exactly

\* half a day passes
TokenTick ==
    /\ now < MaxHalfDays * HalfDay
    /\ now' = now + HalfDay
    /\ UNCHANGED << failed_login_attempts, account_locked_until, password_hash,
                    password_reset_tokens, response, learning_vars, race_vars, mig_vars >>

NextToken == ForgotPassword \/ ResetPassword \/ TokenTick

SpecToken == Init /\ [][NextToken]_vars

(***************************************************************************)
(* The failure specification: completions that commit, and calls of        *)
(* complete_activity and complete_module in which a statement raises.      *)
(***************************************************************************)
\* api_award_xp when complete_activity raises: the handler answers with the error
FailingCompleteActivity ==
    \E u \in Users, m \in OneModule, t \in ActTypes, fail_at \in ActivityFailPoints :
        /\ Step
        /\ Commit(complete_activity_failing(DB, u, m, t, 50, 60, today, fail_at))
        /\ last_call' = Call("complete_activity", u, m, fail_at)
        /\ UNCHANGED today

\* api_complete_module when complete_module raises; without a gamification row
\* _update_user_xp is the statement that raises
FailingCompleteModule ==
    \E u \in Users, m \in OneModule, fail_at \in ModuleFailPoints :
        /\ Step
        /\ ~\E r \in module_completions[u] : r.module_id = m
        /\ user_gamification[u] = NoRow
              => fail_at \in {"select", "insert", "_update_user_xp"}
        /\ Commit(complete_module_failing(DB, u, m, fail_at))
        /\ last_call' = Call("complete_module", u, m, fail_at)
        /\ UNCHANGED today

NextFail == ApiAwardXp \/ FailingCompleteActivity \/ FailingCompleteModule

SpecFail == Init /\ [][NextFail]_vars

(***************************************************************************)
(* The race specification: two calls of complete_activity by one user, on  *)
(* two connections.  A call reads what is committed when it reads, and its *)
(* writes become visible at its commit.                                    *)
(***************************************************************************)
\* a call runs initialize_user and its two SELECTs
RaceBegin ==
    \E c \in RaceCalls, t \in ActTypes :
        LET db0 == initialize_user(DB, RaceUser)
        IN /\ race_pc[c] = "idle"
           /\ Commit(db0)
           /\ race_local' = [race_local EXCEPT ![c] =
                  [ activity_type |-> t,
                    is_first_time |-> prior_completions(db0, RaceUser, "A01", t) = 0,
                    current_streak |-> db0.ug[RaceUser].streak ]]
           /\ race_pc' = [race_pc EXCEPT ![c] = "read"]
           /\ UNCHANGED << today, steps, last_call, auth_vars, mig_vars >>

\* the call inserts its row, updates XP, streak and achievements, and commits
RaceFinish ==
    \E c \in RaceCalls :
        /\ race_pc[c] = "read"
        /\ Commit(finish_activity(DB, RaceUser, "A01", race_local[c].activity_type, 50, 60,
                                  today, race_local[c].is_first_time,
                                  race_local[c].current_streak))
        /\ race_pc' = [race_pc EXCEPT ![c] = "done"]
        /\ UNCHANGED << race_local, today, steps, last_call, auth_vars, mig_vars >>

\* a request of the same user served whole between the steps of the two calls
RaceAwardXp ==
    \E t \in ActTypes :
        /\ Step
        /\ Commit(complete_activity(DB, RaceUser, "A01", t, 50, 60, today))
        /\ last_call' = Call("complete_activity", RaceUser, "A01", "ok")
        /\ UNCHANGED today

NextRace == RaceAwardXp \/ RaceBegin \/ RaceFinish

SpecRace == Init /\ [][NextRace]_vars

(***************************************************************************)
(* The lost-update specification: two calls of complete_activity by one    *)
(* user, each split between the SELECT and the UPDATE of _update_user_xp.  *)
(* The UPDATE locks the row until the commit, so what follows it in a call *)
(* is one step; the SELECT takes no lock and reads what is committed.      *)
(***************************************************************************)
\* a call runs up to the SELECT of _update_user_xp; its inserted row is not
\* committed yet
LostRead ==
    \E c \in RaceCalls, t \in ActTypes :
        LET db0 == initialize_user(DB, RaceUser)
        IN /\ race_pc[c] = "idle"
           /\ Commit(db0)
           /\ race_local' = [race_local EXCEPT ![c] =
                  [ activity_type |-> t,
                    is_first_time |-> prior_completions(db0, RaceUser, "A01", t) = 0,
                    current_streak |-> db0.ug[RaceUser].streak,
                    total_xp |-> db0.ug[RaceUser].total_xp ]]
           /\ race_pc' = [race_pc EXCEPT ![c] = "read"]
           /\ UNCHANGED << today, steps, last_call, auth_vars, mig_vars >>

\* the call's UPDATE, streak update, achievement check and commit
LostWrite ==
    \E c \in RaceCalls :
        LET l == race_local[c]
            total_xp == activity_xp(l.activity_type, 50, l.is_first_time, l.current_streak)
            row == [ module_id |-> "A01", activity_type |-> l.activity_type,
                     score |-> 50, time_spent |-> 60,
                     xp_earned |-> total_xp, first_time |-> l.is_first_time ]
            db1 == [DB EXCEPT !.ac[RaceUser] = Append(@, row)]
            db2 == _update_user_xp_write(db1, RaceUser, total_xp, l.total_xp)
            db3 == _update_streak(db2, RaceUser, today)
        IN /\ race_pc[c] = "read"
           /\ Commit(_check_achievements(db3, RaceUser))
           /\ race_pc' = [race_pc EXCEPT ![c] = "done"]
           /\ UNCHANGED << race_local, today, steps, last_call, auth_vars, mig_vars >>

NextLost == RaceAwardXp \/ LostRead \/ LostWrite

SpecLost == Init /\ [][NextLost]_vars

(***************************************************************************)
(* The module-race specification: concurrent calls of one user, each a     *)
(* complete_module of A01 or a complete_activity.  An INSERT of a key that *)
(* another open transaction has inserted waits for that transaction.       *)
(***************************************************************************)
\* with no unique constraint nothing is refused
no_unique_constraint(db, u, module_id) == FALSE

\* UNIQUE(user_id, module_id) of module_completions refuses a second row
unique_violation(db, u, module_id) == \E r \in db.mc[u] : r.module_id = module_id

\* complete_module up to its INSERT: the two SELECTs
ModRead ==
    \E c \in RaceCalls :
        /\ race_pc[c] = "idle"
        /\ IF \E r \in module_completions[RaceUser] : r.module_id = "A01"
           THEN /\ race_pc' = [race_pc EXCEPT ![c] = "already"]
                /\ UNCHANGED race_local
           ELSE /\ race_pc' = [race_pc EXCEPT ![c] = "module read"]
                /\ race_local' = [race_local EXCEPT ![c] =
                       [ module_xp |-> SumXp(activity_completions[RaceUser], "A01"),
                         total_xp |-> 0 ]]
        /\ UNCHANGED << learning_vars, auth_vars, mig_vars >>

\* the INSERT and the SELECT of _update_user_xp: the INSERT waits while another
\* call holds the key uncommitted; a committed row makes it raise, and so does
\* a missing gamification row in _update_user_xp; the call then rolls back
ModInsert ==
    \E c \in RaceCalls :
        /\ race_pc[c] = "module read"
        /\ \A d \in RaceCalls : race_pc[d] # "module inserted"
        /\ IF unique_violation(DB, RaceUser, "A01") \/ user_gamification[RaceUser] = NoRow
           THEN /\ race_pc' = [race_pc EXCEPT ![c] = "failed"]
                /\ UNCHANGED race_local
           ELSE /\ race_pc' = [race_pc EXCEPT ![c] = "module inserted"]
                /\ race_local' = [race_local EXCEPT ![c].total_xp =
                                      user_gamification[RaceUser].total_xp]
        /\ UNCHANGED << learning_vars, auth_vars, mig_vars >>

\* the UPDATE of the bonus, the achievement check and the commit
ModUpdate ==
    \E c \in RaceCalls :
        LET completion_bonus == xp_rewards("module_completion")
            db1 == [DB EXCEPT !.mc[RaceUser] = @ \cup
                       {[module_id |-> "A01",
                         total_xp_earned |-> race_local[c].module_xp + completion_bonus]}]
            db2 == _update_user_xp_write(db1, RaceUser, completion_bonus,
                                         race_local[c].total_xp)
        IN /\ race_pc[c] = "module inserted"
           /\ Commit(_check_achievements(db2, RaceUser))
           /\ race_pc' = [race_pc EXCEPT ![c] = "recorded"]
           /\ UNCHANGED << race_local, today, steps, last_call, auth_vars, mig_vars >>

NextModule == RaceAwardXp \/ ModRead \/ ModInsert \/ ModUpdate \/ LostRead \/ LostWrite

SpecModule == Init /\ [][NextModule]_vars

(***************************************************************************)
(* The reset-race specification: two concurrent POSTs of /reset-password.  *)
(* verify_password_reset_token, update_user_password and                   *)
(* use_password_reset_token each open, commit and close their own          *)
(* connection, so other requests run between any two of them.              *)
(***************************************************************************)
ResetFailedMessage == "Failed to reset password. Please try again."

\* use_password_reset_token: the value it returns, rowcount > 0
use_password_reset_token_result(au, token) ==
    \E r \in au.prt : r.token = token /\ ~r.used

\* reset_password up to the check of the token
ResetVerify ==
    \E c \in RaceCalls, token \in Tokens, password \in ResetPasswords :
        LET user_id == verify_password_reset_token(AUTH, token, now)
        IN /\ race_pc[c] = "idle"
           /\ race_local' = [race_local EXCEPT ![c] =
                  [ token |-> token, password |-> password, user_id |-> user_id ]]
           /\ IF user_id = {}
              THEN /\ race_pc' = [race_pc EXCEPT ![c] = "rejected"]
                   /\ response' = Response("reset_password", "", password, token, BadTokenMessage)
              ELSE /\ race_pc' = [race_pc EXCEPT ![c] = "verified"]
                   /\ UNCHANGED response
           /\ CommitAuth(AUTH)
           /\ UNCHANGED << now, learning_vars, mig_vars >>

\* update_user_password with the hash of the new password
ResetUpdate ==
    \E c \in RaceCalls :
        /\ race_pc[c] = "verified"
        /\ \E id \in race_local[c].user_id :
               CommitAuth(update_user_password(AUTH, id,
                                               hash_password(race_local[c].password)))
        /\ race_pc' = [race_pc EXCEPT ![c] = "password updated"]
        /\ UNCHANGED << response, race_local, now, learning_vars, mig_vars >>

\* use_password_reset_token and the message that follows from its result
ResetUse ==
    \E c \in RaceCalls :
        LET token == race_local[c].token
            ok == use_password_reset_token_result(AUTH, token)
        IN /\ race_pc[c] = "password updated"
           /\ CommitAuth(use_password_reset_token(AUTH, token))
           /\ race_pc' = [race_pc EXCEPT ![c] = IF ok THEN "reset done" ELSE "reset failed"]
           /\ response' = Response("reset_password", "", race_local[c].password, token,
                                   IF ok THEN ResetDoneMessage ELSE ResetFailedMessage)
           /\ UNCHANGED << race_local, now, learning_vars, mig_vars >>

NextReset == ForgotPassword \/ ResetVerify \/ ResetUpdate \/ ResetUse

SpecReset == Init /\ [][NextReset]_vars

(***************************************************************************)
(* The legacy-failure specification: complete_learning_activity returning  *)
(* False because one of its own statements raised.                         *)
(***************************************************************************)
\* api_complete_activity when complete_learning_activity returns False
FailingCompleteLearningActivity ==
    \E u \in Users, m \in OneModule, t \in ActTypes, fail_at \in LegacyFailPoints :
        /\ Step
        /\ Commit(complete_learning_activity_failing(DB, u, m, t, 100, 0, today, fail_at))
        /\ last_call' = Call("complete_learning_activity", u, m, "False")
        /\ UNCHANGED today

NextLegacy == CompleteLearningActivity \/ FailingCompleteLearningActivity

SpecLegacy == Init /\ [][NextLegacy]_vars

(***************************************************************************)
(* The migration specification: runs of run_migrations.py, one file per    *)
(* step, and starts of the application, which runs init_database.          *)
(***************************************************************************)
MaxRuns == 2

\* main up to its loop: the tracking table exists, the files are listed
MigrateStart ==
    /\ mig_pc.pos = 0
    /\ mig_pc.runs < MaxRuns
    /\ mig_pc' = [runs |-> mig_pc.runs + 1, pos |-> 1, log |-> << >>, failed |-> FALSE]
    /\ UNCHANGED << schema_migrations, sql_executed, learning_vars, auth_vars, race_vars >>

\* where the loop of main stands after the file at pos
after_file(pos) == IF pos = Len(get_migration_files) THEN 0 ELSE pos + 1

\* one turn of the loop of main whose file is recorded: skipped
MigrateSkip ==
    /\ mig_pc.pos > 0
    /\ is_migration_executed(get_migration_files[mig_pc.pos])
    /\ mig_pc' = [mig_pc EXCEPT !.pos = after_file(@)]
    /\ UNCHANGED << schema_migrations, sql_executed, learning_vars, auth_vars, race_vars >>

\* one turn of the loop whose file runs and commits; the INSERT that records
\* it succeeds or raises, and main goes on either way
MigrateRun ==
    \E marked \in BOOLEAN :
        LET filename == get_migration_files[mig_pc.pos]
        IN /\ mig_pc.pos > 0
           /\ ~is_migration_executed(filename)
           /\ sql_executed' = [sql_executed EXCEPT ![filename] = @ + 1]
           /\ schema_migrations' =
                  IF marked THEN schema_migrations \cup {filename} ELSE schema_migrations
           /\ mig_pc' = [mig_pc EXCEPT !.pos = after_file(@), !.log = Append(@, filename)]
           /\ UNCHANGED << learning_vars, auth_vars, race_vars >>

\* one turn of the loop whose file raises: rolled back, and main exits
MigrateFail ==
    /\ mig_pc.pos > 0
    /\ ~is_migration_executed(get_migration_files[mig_pc.pos])
    /\ mig_pc' = [mig_pc EXCEPT !.pos = 0, !.failed = TRUE]
    /\ UNCHANGED << schema_migrations, sql_executed, learning_vars, auth_vars, race_vars >>

\* init_database at the start of the application: every file is executed on
\* one connection and committed, whatever schema_migrations holds
InitDatabase ==
    /\ mig_pc.pos = 0
    /\ mig_pc.runs < MaxRuns
    /\ sql_executed' = [f \in MigrationFiles |-> sql_executed[f] + 1]
    /\ mig_pc' = [runs |-> mig_pc.runs + 1, pos |-> 0, log |-> << >>, failed |-> FALSE]
    /\ UNCHANGED << schema_migrations, learning_vars, auth_vars, race_vars >>

NextMigrate == MigrateStart \/ MigrateSkip \/ MigrateRun \/ MigrateFail \/ InitDatabase

SpecMigrate == Init /\ [][NextMigrate]_vars

(***************************************************************************)
(* Properties.                                                             *)
(***************************************************************************)
HasRow(u) == user_gamification[u] # NoRow

\* the row a completion has just appended to a user's log, in the next state
NewRow(u) == activity_completions'[u][Len(activity_completions'[u])]
Recorded(u) == Len(activity_completions'[u]) = Len(activity_completions[u]) + 1

\* the streak row a handler finds: a new user's row holds the defaults
StoredRow(u) ==
    IF HasRow(u) THEN user_gamification[u]
    ELSE [level |-> 1, current_xp |-> 0, total_xp |-> 0, streak |-> 0,
          max_streak |-> 0, last_activity_date |-> {}]

C1_Base(t) ==
    CASE t = "documentation" -> 75
      [] t = "animation" -> 50
      [] t = "lab" -> 100
      [] t = "quiz" -> 80
      [] t = "assessment" -> 80
      [] OTHER -> 0

C1_Tenths(streak) ==
    IF streak >= 30 THEN 15
    ELSE IF streak >= 14 THEN 13
    ELSE IF streak >= 7 THEN 12
    ELSE IF streak >= 3 THEN 11
    ELSE 10

C1_Expected(t, score, no_earlier, streak) ==
    ((C1_Base(t) + (IF no_earlier THEN 25 ELSE 0)
                 + (IF score >= 100 THEN 50 ELSE IF score >= 90 THEN 25 ELSE 0))
     * C1_Tenths(streak)) \div 10

C2_FirstTimeBonusOnce ==
    \A u \in Users :
        \A i, j \in DOMAIN activity_completions[u] :
            (i < j /\ activity_completions[u][i].activity_type
                        = activity_completions[u][j].activity_type)
                => ~activity_completions[u][j].first_time

\* two completions of one type in different modules, with a reset served last
C2_Witness ==
    \E u \in Users :
        /\ Len(activity_completions[u]) = 2
        /\ activity_completions[u][1].activity_type = activity_completions[u][2].activity_type
        /\ activity_completions[u][1].module_id # activity_completions[u][2].module_id
        /\ activity_completions[u][1].first_time
        /\ last_call.op = "reset_user_progress" /\ last_call.user = u

\* C3: a recorded activity leaves streak, max streak and date alone when the
\* stored date is today, adds 1 to the streak when it is yesterday, and sets
\* the streak to 1 otherwise; in the last two cases the date becomes today.
C3_StreakUpdate ==
    [][\A u \in Users :
          Recorded(u) =>
              LET old == StoredRow(u)
                  new == user_gamification'[u]
              IN IF old.last_activity_date = {today}
                 THEN /\ new.streak = old.streak
                      /\ new.max_streak = old.max_streak
                      /\ new.last_activity_date = old.last_activity_date
                 ELSE IF old.last_activity_date = {today - 1}
                 THEN new.streak = old.streak + 1 /\ new.last_activity_date = {today}
                 ELSE new.streak = 1 /\ new.last_activity_date = {today}]_vars

\* a streak restarted after a gap of two days, the longest streak still 1
C3_Witness ==
    \E u \in Users :
        /\ HasRow(u)
        /\ Len(activity_completions[u]) = 2
        /\ today = 3
        /\ user_gamification[u].last_activity_date = {3}
        /\ user_gamification[u].streak = 1

\* a streak continued on the next day
C3_WitnessContinued ==
    \E u \in Users : HasRow(u) /\ user_gamification[u].streak = 2

C4_Level(n, total_xp) == Cardinality({i \in 1..n : level_thresholds[i] <= total_xp})

\* C4 as stated: a table of 14 thresholds and levels 1..14.
C4_FourteenLevels ==
    \A u \in Users :
        HasRow(u) =>
            /\ user_gamification[u].level = C4_Level(14, user_gamification[u].total_xp)
            /\ user_gamification[u].level \in 1..14
            /\ user_gamification[u].current_xp
                   = user_gamification[u].total_xp
                       - level_thresholds[user_gamification[u].level]

\* C4, amended: the table has 15 strictly ascending thresholds; the level is
\* the number of thresholds <= total XP, so 1..15, and current XP is total XP
\* minus the threshold of that level.
C4_FifteenLevels ==
    /\ Len(level_thresholds) = 15
    /\ \A i \in 1..14 : level_thresholds[i] < level_thresholds[i + 1]
    /\ \A u \in Users :
          HasRow(u) =>
              /\ user_gamification[u].level = C4_Level(15, user_gamification[u].total_xp)
              /\ user_gamification[u].level \in 1..15
              /\ user_gamification[u].current_xp
                     = user_gamification[u].total_xp
                         - level_thresholds[user_gamification[u].level]

\* a total exactly on the last threshold
C4_Witness ==
    \E u \in Users :
        /\ HasRow(u)
        /\ user_gamification[u].total_xp = 24850
        /\ user_gamification[u].level = 15

\* C5: no step lowers a user's stored level.
C5_LevelNeverDecreases ==
    [][\A u \in Users :
          HasRow(u) => /\ user_gamification'[u] # NoRow
                       /\ user_gamification'[u].level >= user_gamification[u].level]_vars

\* a user above level 1 whose progress an admin has just reset
C5_Witness ==
    \E u \in Users :
        /\ HasRow(u)
        /\ user_gamification[u].level >= 2
        /\ last_call.op \in {"reset_user_progress", "reset_all_users_progress"}

\* the rows of a user's log, and of the legacy table, that belong to a module
ModuleRows(u, m) ==
    {i \in DOMAIN activity_completions[u] : activity_completions[u][i].module_id = m}
LegacyRows(u, m) == {r \in learning_activities[u] : r.module_id = m}

PassedAttempt(u, m) ==
    \E r \in user_assessment_attempts[u] :
        r.module_id = m /\ r.is_completed /\ r.score_percentage >= 70

\* the policy: (a) a passed attempt and a non-assessment activity,
\* or (b) two recorded activities, repeats of one type counted
C6_StatedPolicy(u, m) ==
    \/ /\ PassedAttempt(u, m)
       /\ \/ \E i \in ModuleRows(u, m) :
                 activity_completions[u][i].activity_type # "assessment"
          \/ \E r \in LegacyRows(u, m) : r.activity_type # "assessment"
    \/ Cardinality(ModuleRows(u, m)) >= 2
    \/ Cardinality(LegacyRows(u, m)) >= 2

\* C6: is_module_completed answers true exactly when a passed attempt comes
\* with a non-assessment activity, or two activities are recorded, two of one
\* type counting as two.
C6_PolicyCountsActivities ==
    \A u \in Users, m \in ActModules :
        is_module_completed(DB, u, m) <=> C6_StatedPolicy(u, m)

\* there is an unlock record for module m in the user's user_progress
UnlockRecord(u, m) == \E r \in user_progress[u] : r.module_id = m

\* C7: in every state, for every user and every N in 1..9, a user_progress
\* unlock record for module N+1 exists if and only if the completion policy of
\* module N holds for that user.
C7_UnlockRecordIffPolicy ==
    \A u \in Users, N \in 1..9 :
        UnlockRecord(u, module_order[N + 1]) <=> is_module_completed(DB, u, module_order[N])

\* the successor in the order A01 .. A10, written out
C8_Successor(m) ==
    CASE m = "A01" -> "A02" [] m = "A02" -> "A03" [] m = "A03" -> "A04"
      [] m = "A04" -> "A05" [] m = "A05" -> "A06" [] m = "A06" -> "A07"
      [] m = "A07" -> "A08" [] m = "A08" -> "A09" [] m = "A09" -> "A10"
      [] OTHER -> "None"

\* C8: an unlock step for (user, module i) returns the successor of i and
\* leaves exactly one record for it, inserting a zero-XP record only when none
\* exists and changing nothing otherwise; for the last module and for an
\* unknown module id it returns no module and inserts nothing.
C8_UnlockIdempotentLinear ==
    [][last_call'.op = "unlock_next_module" =>
          LET u == last_call'.user
              nxt == C8_Successor(last_call'.module_id)
          IN /\ last_call'.ret = nxt
             /\ user_progress' =
                    IF nxt = "None" \/ UnlockRecord(u, nxt) THEN user_progress
                    ELSE [user_progress EXCEPT
                             ![u] = @ \cup {[module_id |-> nxt, xp_earned |-> 0]}]
             /\ Cardinality({r \in user_progress'[u] : r.module_id = nxt})
                    = (IF nxt = "None" THEN 0 ELSE 1)
             /\ UNCHANGED << user_gamification, activity_completions,
                             user_achievements_new, module_completions,
                             learning_activities, user_assessment_attempts,
                             users_xp >>]_vars

\* the third request in a row unlocks the successor of A01 for a user who has
\* done nothing else: still one zero-XP record, and nothing besides
C8_Witness ==
    \E u \in Users :
        /\ steps = 3
        /\ last_call = Call("unlock_next_module", u, "A01", "A02")
        /\ user_progress[u] = {[module_id |-> "A02", xp_earned |-> 0]}
        /\ activity_completions[u] = << >>
        /\ today = 1

\* a call for the last module of the order: no module returned, nothing inserted
C8_WitnessLast ==
    \E u \in Users :
        /\ last_call = Call("unlock_next_module", u, "A10", "None")
        /\ user_progress[u] = {}

\* a completion of module m is recorded for the user
CompletionRecorded(u, m) == \E r \in module_completions[u] : r.module_id = m

\* the user's total XP; a user without a gamification row has none
TotalXp(u) == IF HasRow(u) THEN user_gamification[u].total_xp ELSE 0

\* C9: a module completion is recorded, and the 150 XP bonus with it, only in
\* a step that leaves the module's completion policy satisfied and that found
\* no completion recorded for (user, module).
C9_BonusOnlyWhenPolicyHolds ==
    [][\A u \in Users, m \in ActModules :
          (~CompletionRecorded(u, m) /\ CompletionRecorded(u, m)')
              => /\ is_module_completed(DB, u, m)'
                 /\ TotalXp(u)' >= TotalXp(u) + 150]_vars

\* the statistics an achievement's condition is about, as committed
C10_Satisfied(achievement, u) ==
    CASE achievement.condition_type = "activity_count" ->
            Len(activity_completions[u]) >= achievement.min
      [] achievement.condition_type = "total_xp" ->
            TotalXp(u) >= achievement.min
      [] achievement.condition_type = "activity_type_count" ->
            CountType(activity_completions[u], achievement.arg) >= achievement.min
      [] achievement.condition_type = "module_count" ->
            Cardinality({r.module_id : r \in module_completions[u]}) >= achievement.min
      [] achievement.condition_type = "module_completion" ->
            CompletionRecorded(u, achievement.arg)
      [] achievement.condition_type = "perfect_score" ->
            CountPerfect(activity_completions[u]) >= achievement.min
      [] achievement.condition_type = "streak" ->
            HasRow(u) /\ user_gamification[u].streak >= achievement.min
      [] OTHER -> FALSE

\* the last request committed an activity completion or a module completion
C10_EventCommitted ==
    \/ last_call.op \in {"complete_activity", "complete_learning_activity", "submit_assessment"}
    \/ last_call.op = "track_doc_reading" /\ last_call.ret = "first"
    \/ last_call.op = "complete_module" /\ last_call.ret = "ok"

\* C10: after a committed activity-completion or module-completion event, the
\* user has earned every achievement of the catalog whose condition the
\* committed statistics satisfy.
C10_NoAchievementLeftUnearned ==
    C10_EventCommitted =>
        \A i \in DOMAIN achievements :
            C10_Satisfied(achievements[i], last_call.user)
                => achievements[i].name \in user_achievements_new[last_call.user]

\* nothing at all is stored for the user
NewUser(u) ==
    /\ ~HasRow(u)
    /\ activity_completions[u] = << >>
    /\ user_achievements_new[u] = {}
    /\ module_completions[u] = {}
    /\ user_progress[u] = {}
    /\ learning_activities[u] = {}
    /\ user_assessment_attempts[u] = {}

LoginStep(n) ==
    /\ response'.op = "login"
    /\ response'.who = n
    /\ now' = now
    /\ password_reset_tokens' = password_reset_tokens
    /\ password_hash' = password_hash

\* the lock of n is set and has not run out
Locked(n) == \E t \in account_locked_until[n] : now < t

\* the lock of n is set and has run out
Expired(n) == \E t \in account_locked_until[n] : now >= t

\* the failures of n since the counter was last reset, an expired lock counting as a reset
FailuresSinceReset(n) == IF Expired(n) THEN 0 ELSE failed_login_attempts[n]

C12_LoginStep(n) ==
    LoginStep(n) =>
        IF Locked(n)
        THEN /\ response'.message = LockedMessage
             /\ failed_login_attempts'[n] = failed_login_attempts[n]
             /\ account_locked_until'[n] = account_locked_until[n]
        ELSE IF password_hash[n] = hash_password(response'.password)
        THEN /\ response'.message = WelcomeMessage
             /\ failed_login_attempts'[n] = 0
             /\ account_locked_until'[n] = {}
        ELSE /\ response'.message = InvalidMessage
             /\ failed_login_attempts'[n] = FailuresSinceReset(n) + 1
             /\ account_locked_until'[n] =
                    IF FailuresSinceReset(n) + 1 = 5 THEN {now + 30} ELSE {}

C12_OtherStep(n) ==
    ~LoginStep(n) =>
        \/ /\ failed_login_attempts'[n] = failed_login_attempts[n]
           /\ account_locked_until'[n] = account_locked_until[n]
        \/ /\ response'.op = "reset_password"
           /\ response'.message = ResetDoneMessage
           /\ failed_login_attempts'[n] = 0
           /\ account_locked_until'[n] = {}

C12_State(n) ==
    /\ failed_login_attempts[n] \in 0 .. 5
    /\ (account_locked_until[n] # {}) <=> (failed_login_attempts[n] = 5)

\* C12: an existing account is locked exactly when its failed logins since the
\* last reset of the counter (a successful login, an expired lock, a password
\* change) reach 5, the lock runs until 30 minutes after the fifth failure,
\* fewer than 5 failures never lock, and the first attempt after the lock has
\* run out starts from a counter of 0 and is judged on its password.
C12_Lockout ==
    [][\A n \in AuthUsers :
         /\ C12_State(n)
         /\ C12_State(n)'
         /\ C12_LoginStep(n)
         /\ C12_OtherStep(n)]_vars

\* the fifth failure has just locked the account for 30 minutes
C12_Witness ==
    /\ response.op = "login"
    /\ response.message = InvalidMessage
    /\ failed_login_attempts["alice"] = 5
    /\ account_locked_until["alice"] = {now + 30}

\* a step that served a reset request
ResetStep == response'.op = "reset_password" /\ now' = now

\* the stored rows of a token that is unused and at most 24 hours old
Acceptable(token) ==
    {r \in password_reset_tokens :
        /\ r.token = token
        /\ ~r.used
        /\ now <= r.created_at + 24 * 60}

C13_ResetStep ==
    ResetStep =>
        IF Acceptable(response'.token) # {}
        THEN /\ response'.message = ResetDoneMessage
             /\ \A r \in Acceptable(response'.token) :
                    /\ r.user_id = 1
                    /\ password_hash'["alice"] = hash_password(response'.password)
                    /\ [r EXCEPT !.used = TRUE] \in password_reset_tokens'
        ELSE /\ response'.message = BadTokenMessage
             /\ password_hash' = password_hash
             /\ password_reset_tokens' = password_reset_tokens

\* C13: a reset token is accepted, and the reset form changes its user's
\* password, only if the token is stored, is not marked used and is at most 24
\* hours old; unknown, used and expired tokens are rejected and leave the
\* password as it was, and nothing else changes a password.
C13_TokenAccepted ==
    [][/\ C13_ResetStep
       /\ ~ResetStep => password_hash' = password_hash]_vars

\* a token exactly 24 hours old has just reset the password
C13_Witness ==
    /\ response.op = "reset_password"
    /\ response.message = ResetDoneMessage
    /\ password_hash["alice"] = hash_password("pw1")
    /\ \E r \in password_reset_tokens :
          r.token = response.token /\ r.used /\ now = r.created_at + 24 * 60

\* a step that served a login request whose password does not open an account
WrongPasswordStep ==
    /\ response'.op = "login"
    /\ now' = now
    /\ \/ response'.who \notin AuthUsers
       \/ password_hash[response'.who] # hash_password(response'.password)

\* C14: a login with a wrong password is answered with the same generic
\* message, "Invalid username or password", whether the username belongs to an
\* account or to none.
C14_GenericLoginFailure ==
    [][WrongPasswordStep => response'.message = InvalidMessage]_vars

\* C15: the message answering a forgot-password request is the same whether the
\* submitted email belongs to an account or not, that is, it is the message
\* given for an email of no account.
C15_SameForgotResponse ==
    response.op = "forgot_password" => response.message = IfExistsMessage

\* an attempt of u at the assessment of m that is started and not completed
OpenAttempt(u, m) ==
    \E a \in user_assessment_attempts[u] : a.module_id = m /\ ~a.is_completed

\* C16: a scored submission for an open attempt leaves the attempt stored as
\* completed with the score percentage, and records one 'assessment' activity
\* completion with that same score.
C16_AttemptPersisted ==
    [][\A u \in Users, m \in OneModule :
          (/\ last_call' = Call("submit_assessment", u, m, "scored")
           /\ steps' = steps + 1
           /\ OpenAttempt(u, m))
              => /\ Recorded(u)
                 /\ NewRow(u).activity_type = "assessment"
                 /\ \E a \in user_assessment_attempts'[u] :
                        /\ a.module_id = m
                        /\ a.is_completed
                        /\ a.score_percentage = NewRow(u).score]_vars

\* a step in which complete_activity or complete_module raised
FailedCall ==
    /\ steps' = steps + 1
    /\ \/ /\ last_call'.op = "complete_activity"
          /\ last_call'.ret \in ActivityFailPoints
       \/ /\ last_call'.op = "complete_module"
          /\ last_call'.ret \in ModuleFailPoints

\* C17: when a statement of complete_activity or complete_module raises, none
\* of the call's effects is kept: the activity log, the module completions, the
\* earned achievements and every user's XP, level and streak are as before.
C17_FailureLeavesNoEffect ==
    [][FailedCall =>
          /\ activity_completions' = activity_completions
          /\ module_completions' = module_completions
          /\ user_achievements_new' = user_achievements_new
          /\ \A u \in Users : StoredRow(u)' = StoredRow(u)
          /\ UNCHANGED << user_progress, learning_activities,
                          user_assessment_attempts, users_xp >>]_vars

\* the commit of a module completion has just failed for a user with history
C17_Witness ==
    /\ last_call.op = "complete_module"
    /\ last_call.ret = "commit"
    /\ Len(activity_completions[last_call.user]) >= 1
    /\ module_completions[last_call.user] = {}

\* the rows of RaceUser's log of one activity type that carry the first-time bonus
BonusRows(t) ==
    {i \in DOMAIN activity_completions[RaceUser] :
        /\ activity_completions[RaceUser][i].activity_type = t
        /\ activity_completions[RaceUser][i].first_time}

\* both calls were for one activity type, both read zero earlier completions of
\* it, and both have committed
BothReadZero ==
    /\ \A c \in RaceCalls : race_pc[c] = "done" /\ race_local[c].is_first_time
    /\ race_local[1].activity_type = race_local[2].activity_type

\* C18: two concurrent complete_activity calls of one user for one activity
\* type can both read zero earlier completions; each call's row then carries
\* the first-time bonus it decided on from its own read, so the bonus is
\* counted twice.
C18_RaceDoublesBonus ==
    /\ BothReadZero => Cardinality(BonusRows(race_local[1].activity_type)) >= 2
    /\ \A c \in RaceCalls :
          race_pc[c] = "done" =>
              \E i \in DOMAIN activity_completions[RaceUser] :
                  LET row == activity_completions[RaceUser][i]
                  IN /\ row.activity_type = race_local[c].activity_type
                     /\ row.first_time = race_local[c].is_first_time
                     /\ row.xp_earned = C1_Expected(row.activity_type, row.score,
                                                    race_local[c].is_first_time,
                                                    race_local[c].current_streak)

\* both calls have committed a 'lab' row with the first-time bonus
C18_Witness ==
    /\ BothReadZero
    /\ race_local[1].activity_type = "lab"
    /\ Cardinality(BonusRows("lab")) = 2
    /\ Len(activity_completions[RaceUser]) = 2
    /\ TotalXp(RaceUser) >= 2 * C1_Expected("lab", 50, TRUE, 0)

\* C19: when reset-all-progress has completed, every user's profile shows XP 0,
\* level 1, streak 0, no achievement and no completed module, and the
\* module-completion check holds for no module.
C19_ResetAllClearsEverything ==
    last_call.op = "reset_all_users_progress" =>
        \A u \in Users :
            /\ TotalXp(u) = 0
            /\ StoredRow(u).level = 1
            /\ StoredRow(u).streak = 0
            /\ user_achievements_new[u] = {}
            /\ module_completions[u] = {}
            /\ \A m \in ActModules : ~is_module_completed(DB, u, m)

\* the rows of u's log written by a lab endpoint: award_xp completes a 'lab'
\* with score 100 and no time spent
LabTriggerRows(u) ==
    {i \in DOMAIN activity_completions[u] :
        /\ activity_completions[u][i].activity_type = "lab"
        /\ activity_completions[u][i].score = 100
        /\ activity_completions[u][i].time_spent = 0}

\* C20: every successful trigger of a lab endpoint awards the same XP, whatever
\* the learner completed before and however often the lab was triggered.
C20_FixedLabXp ==
    \A u \in Users :
        \A i, j \in LabTriggerRows(u) :
            activity_completions[u][i].xp_earned = activity_completions[u][j].xp_earned

\* C21: over any number of runs each migration file's SQL is executed at most
\* once, a recorded file being skipped; within a run the files are executed in
\* ascending order of their names; and once a file has failed the run executes
\* nothing more.
C21_MigrationsIdempotent ==
    /\ \A f \in MigrationFiles : sql_executed[f] <= 1
    /\ \A i, j \in DOMAIN mig_pc.log : i < j => mig_pc.log[i] < mig_pc.log[j]
    /\ mig_pc.failed => mig_pc.pos = 0

\* the XP of all rows of an activity log
RECURSIVE LogXp(_)
LogXp(log) == IF log = << >> THEN 0 ELSE Head(log).xp_earned + LogXp(Tail(log))

\* the rewards of the catalog entries from i on whose names are in earned
RECURSIVE RewardsFrom(_, _)
RewardsFrom(i, earned) ==
    IF i > Len(achievements) THEN 0
    ELSE (IF achievements[i].name \in earned THEN achievements[i].xp_reward ELSE 0)
         + RewardsFrom(i + 1, earned)

\* C22: a user's total XP is the XP of the recorded activity completions, plus
\* 150 for each recorded module completion, plus the rewards of the
\* achievements earned.
C22_XpLedger ==
    \A u \in Users :
        TotalXp(u) = LogXp(activity_completions[u])
                       + 150 * Cardinality(module_completions[u])
                       + RewardsFrom(1, user_achievements_new[u])

\* a user with activities, a completed module and an achievement
C22_Witness ==
    \E u \in Users :
        /\ Len(activity_completions[u]) >= 2
        /\ module_completions[u] # {}
        /\ user_achievements_new[u] # {}
        /\ TotalXp(u) > LogXp(activity_completions[u]) + 150

\* C23: every stored gamification row is consistent: the level is the one the
\* threshold table gives for total XP, current XP is total XP minus that
\* level's threshold and not negative, the XP reported as required for the
\* next level is above total XP, and max streak >= streak >= 0.
C23_RowConsistent ==
    \A u \in Users :
        HasRow(u) =>
            LET row == user_gamification[u]
            IN /\ row.level = C4_Level(15, row.total_xp)
               /\ row.current_xp = row.total_xp - level_thresholds[row.level]
               /\ row.current_xp >= 0
               /\ _get_next_level_xp(row.level) > row.total_xp
               /\ row.max_streak >= row.streak
               /\ row.streak >= 0

\* the XP of the row just recorded, had the streak been s
C24_XpAtStreak(u, s) ==
    C1_Expected(NewRow(u).activity_type, NewRow(u).score, NewRow(u).first_time, s)

\* C24: the multiplier of a completion is that of the streak stored before the
\* call: a completion that raises the streak to 3, 7, 14 or 30 is multiplied
\* as the streak before it, and one that restarts a broken streak at 1 is
\* multiplied as the old streak.
C24_MultiplierOfOldStreak ==
    [][\A u \in Users :
          LET old == StoredRow(u).streak
              new == user_gamification'[u].streak
          IN (/\ Recorded(u)
              /\ \/ new = old + 1 /\ new \in {3, 7, 14, 30}
                 \/ new = 1 /\ old >= 3)
                 => /\ NewRow(u).xp_earned = C24_XpAtStreak(u, old)
                    /\ NewRow(u).xp_earned # C24_XpAtStreak(u, new)]_vars

\* the lab of the thirtieth day in a row: 100 * 1.3, the multiplier of a streak of 29
C24_Witness ==
    /\ HasRow(1)
    /\ Len(activity_completions[1]) = 30
    /\ user_gamification[1].streak = 30
    /\ activity_completions[1][30].xp_earned = 130

\* what C22 makes of the records of u: activities, module bonuses, rewards
Ledger(u) ==
    LogXp(activity_completions[u]) + 150 * Cardinality(module_completions[u])
        + RewardsFrom(1, user_achievements_new[u])

\* both calls have committed, and both had read the same total before either wrote
BothReadSameTotal ==
    /\ \A c \in RaceCalls : race_pc[c] = "done"
    /\ race_local[1].total_xp = race_local[2].total_xp

\* C25: two concurrent XP-awarding calls of one user can lose an award: when
\* both read the total before either writes, both records are committed and
\* total XP ends below the sum of the recorded awards.
C25_LostAward ==
    BothReadSameTotal =>
        /\ Len(activity_completions[RaceUser]) >= 2
        /\ TotalXp(RaceUser) < Ledger(RaceUser)

\* two completions that both read a total of 0: two rows recorded, one award stored
C25_Witness ==
    /\ BothReadSameTotal
    /\ race_local[1].total_xp = 0
    /\ Len(activity_completions[RaceUser]) = 2
    /\ Ledger(RaceUser) > TotalXp(RaceUser)
    /\ TotalXp(RaceUser) > 0

\* the calls that recorded the module completion
RecordedCalls == {c \in RaceCalls : race_pc[c] = "recorded"}

\* C26: of concurrent complete_module calls for one user and module at most
\* one records the completion and awards the 150 XP, every other call fails
\* and rolls back; and no achievement is rewarded twice: the stored total never
\* exceeds what the records add up to, each module and achievement once.
C26_AtMostOnce ==
    /\ [](/\ Cardinality(RecordedCalls) <= 1
          /\ RecordedCalls # {} => unique_violation(DB, RaceUser, "A01")
          /\ TotalXp(RaceUser) <= Ledger(RaceUser))
    /\ [][\A c \in RaceCalls :
             (race_pc[c] # race_pc'[c] /\ race_pc'[c] \in {"failed", "already"})
                 => UNCHANGED learning_vars]_vars

\* both calls passed the check for an earlier completion; one recorded it and
\* the other was refused by the unique constraint
C26_Witness ==
    /\ race_pc = << "recorded", "failed" >>
    /\ TotalXp(RaceUser) = Ledger(RaceUser)
    /\ user_achievements_new[RaceUser] # {}

\* C27: a login attempt on a locked account is rejected whatever the password,
\* no session is created, and the attempt leaves the failed-attempt counter and
\* the lock expiry unchanged.
C27_LockedLoginRejected ==
    [][\A n \in AuthUsers :
         (LoginStep(n) /\ Locked(n)) =>
             /\ response'.message = LockedMessage
             /\ failed_login_attempts'[n] = failed_login_attempts[n]
             /\ account_locked_until'[n] = account_locked_until[n]]_vars

\* the correct password was refused on a locked account
C27_Witness ==
    \E n \in AuthUsers :
        /\ Locked(n)
        /\ failed_login_attempts[n] = MAX_LOGIN_ATTEMPTS
        /\ response.op = "login"
        /\ response.who = n
        /\ verify_password(response.password, password_hash[n])
        /\ response.message = LockedMessage

\* the calls that have changed the password with the given token
ChangedWith(token) ==
    {c \in RaceCalls : /\ race_pc[c] \in {"password updated", "reset done", "reset failed"}
                       /\ race_local[c].token = token}

\* a user never has two usable tokens
OneUsableToken ==
    \A r1, r2 \in password_reset_tokens :
        (r1.user_id = r2.user_id /\ ~r1.used /\ ~r2.used) => r1 = r2

\* C28: a reset token changes the password at most once, also when two
\* requests carrying it are processed concurrently; and a new token makes the
\* user's earlier tokens unusable.
C28_TokenChangesPasswordOnce ==
    /\ \A token \in Tokens : Cardinality(ChangedWith(token)) <= 1
    /\ OneUsableToken

\* a step in which complete_learning_activity returned False
ReturnedFalse ==
    /\ steps' = steps + 1
    /\ last_call'.op = "complete_learning_activity"
    /\ last_call'.ret = "False"

\* C29: when complete_learning_activity returns False nothing the call wrote
\* is kept: the activity log, the module completions, the achievements, every
\* user's XP, level and streak, the unlock records and the legacy tables are
\* as before.
C29_AllOrNothing ==
    [][ReturnedFalse =>
          /\ activity_completions' = activity_completions
          /\ module_completions' = module_completions
          /\ user_achievements_new' = user_achievements_new
          /\ \A u \in Users : StoredRow(u)' = StoredRow(u)
          /\ UNCHANGED << user_progress, learning_activities, users_xp >>]_vars

\* the legacy tables are left as they were by a call that returned False
LegacyRolledBack ==
    [][ReturnedFalse => UNCHANGED << learning_activities, users_xp >>]_vars

\* the elements of a sequence
Range(seq) == {seq[i] : i \in DOMAIN seq}

\* the modules reported unlocked and reported completed for a user
ReportedUnlocked(u) == Range(get_user_unlocked_modules(DB, u))
ReportedCompleted(u) == Range(get_user_completed_modules(DB, u))

\* the first module is reported unlocked for every user
FirstModuleUnlocked == \A u \in Users : module_order[1] \in ReportedUnlocked(u)

\* C30: module progression is linear: the modules reported unlocked contain
\* the first module and form a prefix of the module order, every module
\* reported completed is reported unlocked, and no activity completion is
\* recorded for a module that is not reported unlocked.
C30_LinearProgression ==
    \A u \in Users :
        /\ module_order[1] \in ReportedUnlocked(u)
        /\ \A i \in 1 .. (Len(module_order) - 1) :
               module_order[i + 1] \in ReportedUnlocked(u)
                   => module_order[i] \in ReportedUnlocked(u)
        /\ ReportedCompleted(u) \subseteq ReportedUnlocked(u)
        /\ \A i \in DOMAIN activity_completions[u] :
               activity_completions[u][i].module_id \in ReportedUnlocked(u)

====
